---- MODULE Spec2Model ----
(***************************************************************************)
(* A model of wangle/ssl/SSLUtil.h: the ex_data index acquisition          *)
(* functions guarded by SSLUtil::sIndexLock_, the std::string ex_data      *)
(* duplicate/free callbacks, and the session resumption classifier.        *)
(***************************************************************************)
EXTENDS Integers, Sequences, FiniteSets, TLC

\* ------------------------------------------------------------------ bounds
NumThreads == 2
NumStorages == 2
MaxCalls == 3
NumSessions == 2
MaxStrings == 2
NumSockets == 3
NumExceptions == 1
MaxAttrs == 2
MaxNames == 2

Threads == 1..NumThreads
\* the caller-supplied int locations (statics or globals) passed as pindex
Storages == 1..NumStorages
\* the three ex_data classes of the underlying library
Kinds == {"SSL_CTX", "RSA", "SSL_SESSION"}

NoThread == 0

VARIABLES
  sIndexLock_,  \* holder of the std::mutex, NoThread when free
  store,        \* store[s]: the int held by storage location s (*pindex)
  reg,          \* reg[k]: callbacks registered per index of class k, in order
  th,           \* th[t]: position and locals of thread t inside a call
  done,         \* done[s]: how the completed calls on s ended (history)
  facCalls,     \* facCalls[s]: invocations of a new-index function for s
  facFails,     \* facFails[s]: those that returned a negative value
  conc,         \* conc[s]: most threads ever inside a call on s at once
  ncalls,       \* calls started so far
  sess,         \* sess[a]: an SSL_SESSION object: its state and its ex_data
  heap,         \* heap[p]: the std::string instance at address p
  dupRet,       \* what exDataStdStringDup has returned so far (history)
  sock,         \* sock[c]: the two flags of an AsyncSSLSocket
  logged,       \* logged[c]: what getResumeState returned for c, if called
  exc,          \* exc[e]: an SSLException object: its fields once constructed
  got,          \* got[e]: what the accessors last returned for e
  cert,         \* the parsed X509 certificate handed to the extractors
  cn,           \* what getCommonName returned for cert, if called
  san           \* what getSubjectAltName returned for cert, if called

idxVars == <<sIndexLock_, store, reg, th, done, facCalls, facFails, conc, ncalls>>

dataVars == <<sess, heap, dupRet>>

resVars == <<sock, logged>>

excVars == <<exc, got>>

certVars == <<cert, cn, san>>

vars == <<idxVars, dataVars, resVars, excVars, certVars>>

Idle == [pc |-> "idle", kind |-> "SSL_CTX", pindex |-> 1, r |-> <<>>]

\* ------------------------------------------------- the underlying facility
\* arguments the three functions pass to X_get_ex_new_index
\* (argl, argp, new_func, dup_func, free_func): only the callbacks differ
SSL_CTX_get_ex_new_index_args == [dup |-> "nullptr", free |-> "nullptr"]

\* RSA_get_ex_new_index handed the string callbacks of the session slot
RSA_get_ex_new_index_args_string ==
  [dup |-> "exDataStdStringDup", free |-> "exDataStdStringFree"]

RSA_get_ex_new_index_args == [dup |-> "nullptr", free |-> "nullptr"]

SSL_SESSION_get_ex_new_index_args ==
  [dup |-> "exDataStdStringDup", free |-> "exDataStdStringFree"]

NewIndexArgs(k) ==
  CASE k = "SSL_CTX" -> SSL_CTX_get_ex_new_index_args
    [] k = "RSA" -> RSA_get_ex_new_index_args
    [] k = "SSL_SESSION" -> SSL_SESSION_get_ex_new_index_args

\* what a new-index function can return with the class holding n indices:
\* the next index of the class, or -1 when it cannot allocate
NewIndexResults(n) == {n, -1}

\* ---------------------------------------------------- index acquisition
InsideCall(s) == {u \in Threads : th[u].pc # "idle" /\ th[u].pindex = s}

\* a caller enters getSSLCtxExIndex / getRSAExIndex / getSSLSessionExStrIndex
\* (selected by k) with pindex = &store[s]
Enter(t, k, s) ==
  /\ th[t].pc = "idle"
  /\ ncalls < MaxCalls
  /\ th' = [th EXCEPT ![t] = [pc |-> "lock", kind |-> k, pindex |-> s, r |-> <<>>]]
  /\ ncalls' = ncalls + 1
  /\ conc' = [conc EXCEPT ![s] =
                IF Cardinality(InsideCall(s)) + 1 > @
                  THEN Cardinality(InsideCall(s)) + 1 ELSE @]
  /\ UNCHANGED <<sIndexLock_, store, reg, done, facCalls, facFails, dataVars, resVars, excVars, certVars>>

\* LockGuard without mutual exclusion: proceeds although the mutex is held
LockGuard_nomutex(t) ==
  /\ th[t].pc = "lock"
  /\ sIndexLock_' = t
  /\ th' = [th EXCEPT ![t].pc = "check"]
  /\ UNCHANGED <<store, reg, done, facCalls, facFails, conc, ncalls, dataVars, resVars, excVars, certVars>>

\* LockGuard as an unchecked try_lock: goes on without the mutex when it is held
LockGuard_trylock(t) ==
  /\ th[t].pc = "lock"
  /\ sIndexLock_' = IF sIndexLock_ = NoThread THEN t ELSE sIndexLock_
  /\ th' = [th EXCEPT ![t].pc = "check"]
  /\ UNCHANGED <<store, reg, done, facCalls, facFails, conc, ncalls, dataVars, resVars, excVars, certVars>>

\* std::lock_guard<std::mutex> g(sIndexLock_): blocks until the mutex is free
LockGuard(t) ==
  /\ th[t].pc = "lock"
  /\ sIndexLock_ = NoThread
  /\ sIndexLock_' = t
  /\ th' = [th EXCEPT ![t].pc = "check"]
  /\ UNCHANGED <<store, reg, done, facCalls, facFails, conc, ncalls, dataVars, resVars, excVars, certVars>>

\* NeedsIndex without the test: every call allocates
NeedsIndex_always(v) == TRUE

\* the test of line 63/70/127
NeedsIndex(v) == v < 0

\* if (*pindex < 0)
CheckIndex(t) ==
  /\ th[t].pc = "check"
  /\ th' = [th EXCEPT ![t].pc =
              IF NeedsIndex(store[th[t].pindex]) THEN "new" ELSE "unlock"]
  /\ UNCHANGED <<sIndexLock_, store, reg, done, facCalls, facFails, conc, ncalls, dataVars, resVars, excVars, certVars>>

\* the call X_get_ex_new_index(0, nullptr, nullptr, dup, free)
NewIndex(t) ==
  /\ th[t].pc = "new"
  /\ \E v \in NewIndexResults(Len(reg[th[t].kind])) :
       /\ th' = [th EXCEPT ![t].pc = "store", ![t].r = <<v>>]
       /\ reg' = IF v >= 0
                   THEN [reg EXCEPT ![th[t].kind] = Append(@, NewIndexArgs(th[t].kind))]
                   ELSE reg
       /\ facCalls' = [facCalls EXCEPT ![th[t].pindex] = @ + 1]
       /\ facFails' = IF v < 0 THEN [facFails EXCEPT ![th[t].pindex] = @ + 1]
                      ELSE facFails
  /\ UNCHANGED <<sIndexLock_, store, done, conc, ncalls, dataVars, resVars, excVars, certVars>>

\* StoreIndex that drops the value returned instead of storing it
StoreIndex_dropped(t) ==
  /\ th[t].pc = "store"
  /\ th' = [th EXCEPT ![t].pc = "unlock"]
  /\ UNCHANGED <<sIndexLock_, store, reg, done, facCalls, facFails, conc, ncalls, dataVars, resVars, excVars, certVars>>

\* StoreIndex that stores index 0 when the facility failed
StoreIndex_clamped(t) ==
  /\ th[t].pc = "store"
  /\ store' = [store EXCEPT ![th[t].pindex] = IF th[t].r[1] < 0 THEN 0 ELSE th[t].r[1]]
  /\ th' = [th EXCEPT ![t].pc = "unlock"]
  /\ UNCHANGED <<sIndexLock_, reg, done, facCalls, facFails, conc, ncalls, dataVars, resVars, excVars, certVars>>

\* StoreIndex that writes one shared index instead of the caller's *pindex
StoreIndex_shared(t) ==
  /\ th[t].pc = "store"
  /\ store' = [s \in Storages |-> th[t].r[1]]
  /\ th' = [th EXCEPT ![t].pc = "unlock"]
  /\ UNCHANGED <<sIndexLock_, reg, done, facCalls, facFails, conc, ncalls, dataVars, resVars, excVars, certVars>>

\* *pindex = <the value returned>
StoreIndex(t) ==
  /\ th[t].pc = "store"
  /\ store' = [store EXCEPT ![th[t].pindex] = th[t].r[1]]
  /\ th' = [th EXCEPT ![t].pc = "unlock"]
  /\ UNCHANGED <<sIndexLock_, reg, done, facCalls, facFails, conc, ncalls, dataVars, resVars, excVars, certVars>>

\* Unlock that returns with the mutex still held
Unlock_held(t) ==
  /\ th[t].pc = "unlock"
  /\ done' = [done EXCEPT ![th[t].pindex] = @ \cup
               {[val |-> store[th[t].pindex], r |-> th[t].r, how |-> "return"]}]
  /\ th' = [th EXCEPT ![t] = Idle]
  /\ UNCHANGED <<sIndexLock_, store, reg, facCalls, facFails, conc, ncalls, dataVars, resVars, excVars, certVars>>

\* the closing brace: ~lock_guard releases the mutex and the function returns
\* (void, no throw: the only way out is the ordinary return)
Unlock(t) ==
  /\ th[t].pc = "unlock"
  /\ sIndexLock_' = NoThread
  /\ done' = [done EXCEPT ![th[t].pindex] = @ \cup
               {[val |-> store[th[t].pindex], r |-> th[t].r, how |-> "return"]}]
  /\ th' = [th EXCEPT ![t] = Idle]
  /\ UNCHANGED <<store, reg, facCalls, facFails, conc, ncalls, dataVars, resVars, excVars, certVars>>

getSSLCtxExIndex(t, s) == Enter(t, "SSL_CTX", s)

getRSAExIndex(t, s) == Enter(t, "RSA", s)

getSSLSessionExStrIndex(t, s) == Enter(t, "SSL_SESSION", s)

\* ------------------------------------------- std::string ex_data callbacks
Sessions == 1..NumSessions
Ptrs == 1..MaxStrings
NULL == 0
Contents == {"a", "b"}
\* the ex_data indices an object can carry: one per call at most
SlotIdx == 0..(MaxCalls - 1)

FreeCells(h) == {p \in Ptrs : ~h[p].alloc}

NewPtr(h) == CHOOSE p \in FreeCells(h) : \A q \in FreeCells(h) : p <= q

\* new std::string(c), by the caller ("attach") or by the duplicate callback
NewString(h, p, c, who) ==
  [h EXCEPT ![p] = [alloc |-> TRUE, str |-> c, dels |-> 0, by |-> who]]

\* delete strPtr
DeleteString(h, p) == [h EXCEPT ![p].dels = @ + 1]

\* exDataStdStringDup handing the source's own string to the copy
exDataStdStringDup_shallow(v, h) == [ptr |-> v, heap |-> h, ret |-> 1]

\* exDataStdStringDup allocating a default-constructed string
exDataStdStringDup_empty(v, h) ==
  IF v # NULL
    THEN [ptr |-> NewPtr(h), heap |-> NewString(h, NewPtr(h), "", "dup"), ret |-> 1]
    ELSE [ptr |-> v, heap |-> h, ret |-> 1]

\* exDataStdStringDup moving the source's contents into the new string
exDataStdStringDup_move(v, h) ==
  IF v # NULL
    THEN [ptr |-> NewPtr(h),
          heap |-> [NewString(h, NewPtr(h), h[v].str, "dup") EXCEPT ![v].str = ""],
          ret |-> 1]
    ELSE [ptr |-> v, heap |-> h, ret |-> 1]

\* exDataStdStringDup reporting failure for a null source value
exDataStdStringDup_failnull(v, h) ==
  IF v # NULL
    THEN [ptr |-> NewPtr(h), heap |-> NewString(h, NewPtr(h), h[v].str, "dup"), ret |-> 1]
    ELSE [ptr |-> v, heap |-> h, ret |-> 0]

\* exDataStdStringDup(to, from, ptr, idx, argl, argp) with *dataPtr = v:
\* the value *dataPtr holds afterwards, the heap afterwards, the int returned
exDataStdStringDup(v, h) ==
  IF v # NULL
    THEN [ptr |-> NewPtr(h), heap |-> NewString(h, NewPtr(h), h[v].str, "dup"), ret |-> 1]
    ELSE [ptr |-> v, heap |-> h, ret |-> 1]

\* exDataStdStringFree that never deletes
exDataStdStringFree_leak(ptr, h) == h

\* exDataStdStringFree(parent, ptr, ad, idx, argl, argp): the heap afterwards
exDataStdStringFree(ptr, h) ==
  IF ptr # NULL THEN DeleteString(h, ptr) ELSE h

\* the facility copying one slot: the callback registered for the index is
\* handed the address of a temporary holding the source's value
DupSlot(cb, v, h) ==
  IF cb.dup = "exDataStdStringDup"
    THEN exDataStdStringDup(v, h)
    ELSE [ptr |-> v, heap |-> h, ret |-> 1]

\* the facility copying the ex_data of an object, slot by slot; a callback
\* returning 0 aborts the copy
RECURSIVE DupExData(_, _, _, _)
DupExData(cbs, from, i, acc) ==
  IF i >= Len(cbs) \/ acc.ret = 0 THEN acc
  ELSE LET d == DupSlot(cbs[i + 1], from[i], acc.heap) IN
       DupExData(cbs, from, i + 1,
                 [ex |-> [acc.ex EXCEPT ![i] = d.ptr], heap |-> d.heap, ret |-> d.ret,
                  rets |-> acc.rets \cup
                    (IF cbs[i + 1].dup = "exDataStdStringDup"
                       THEN {[null |-> from[i] = NULL, ret |-> d.ret]} ELSE {})])

\* the facility releasing one slot of an object being destroyed
FreeSlot(cb, v, h) ==
  IF cb.free = "exDataStdStringFree" THEN exDataStdStringFree(v, h) ELSE h

RECURSIVE FreeExData(_, _, _, _)
FreeExData(cbs, ex, i, h) ==
  IF i >= Len(cbs) THEN h
  ELSE FreeExData(cbs, ex, i + 1, FreeSlot(cbs[i + 1], ex[i], h))

NoExData == [i \in SlotIdx |-> NULL]

\* the next session object to come into being (0 when the bound is reached)
NextSession ==
  IF \E a \in Sessions : sess[a].state = "unused"
    THEN CHOOSE a \in Sessions :
           sess[a].state = "unused" /\ \A b \in 1..(a - 1) : sess[b].state # "unused"
    ELSE 0

\* SSL_SESSION_new: a session with empty ex_data
NewSession(a) ==
  /\ a = NextSession
  /\ sess' = [sess EXCEPT ![a] = [state |-> "live", ex |-> NoExData, from |-> 0]]
  /\ UNCHANGED <<heap, dupRet, idxVars, resVars, excVars, certVars>>

\* the owner of index storage s stores a new string in the empty slot of a:
\* SSL_SESSION_set_ex_data(a, *pindex, new std::string(c))
AttachString(a, s, c) ==
  /\ sess[a].state = "live"
  /\ store[s] >= 0
  /\ store[s] < Len(reg["SSL_SESSION"])
  /\ sess[a].ex[store[s]] = NULL
  /\ FreeCells(heap) # {}
  /\ heap' = NewString(heap, NewPtr(heap), c, "attach")
  /\ sess' = [sess EXCEPT ![a].ex[store[s]] = NewPtr(heap)]
  /\ UNCHANGED <<dupRet, idxVars, resVars, excVars, certVars>>

\* session a is copied to b: the facility runs the duplicate callbacks
CopySession(a, b) ==
  /\ sess[a].state = "live"
  /\ b = NextSession
  /\ Cardinality(FreeCells(heap)) >=
       Cardinality({i \in SlotIdx : sess[a].ex[i] # NULL})
  /\ LET d == DupExData(reg["SSL_SESSION"], sess[a].ex, 0,
                        [ex |-> NoExData, heap |-> heap, ret |-> 1, rets |-> {}]) IN
       /\ heap' = d.heap
       /\ dupRet' = dupRet \cup d.rets
       /\ sess' = IF d.ret = 1
                    THEN [sess EXCEPT ![b] = [state |-> "live", ex |-> d.ex, from |-> a]]
                    ELSE sess
  /\ UNCHANGED <<idxVars, resVars, excVars, certVars>>

\* SSL_SESSION_free: the facility runs the free callbacks, once per slot
DestroySession(a) ==
  /\ sess[a].state = "live"
  /\ heap' = FreeExData(reg["SSL_SESSION"], sess[a].ex, 0, heap)
  /\ sess' = [sess EXCEPT ![a].state = "freed"]
  /\ UNCHANGED <<dupRet, idxVars, resVars, excVars, certVars>>

\* ----------------------------------------------------- resume classifier
Sockets == 1..NumSockets

\* getResumeState with the two resumption kinds exchanged
getResumeState_swapped(sessionReused, sessionIDResumed) ==
  IF sessionReused
    THEN (IF sessionIDResumed THEN 3 ELSE 1)
    ELSE 0

\* SSLResumeEnum renumbered sequentially
SSLResumeEnum_sequential ==
  [HANDSHAKE |-> 0, RESUME_SESSION_ID |-> 1, RESUME_TICKET |-> 2, NA |-> 3]

\* enum class SSLResumeEnum : uint8_t
SSLResumeEnum ==
  [HANDSHAKE |-> 0, RESUME_SESSION_ID |-> 1, RESUME_TICKET |-> 3, NA |-> 2]

\* getResumeState(sslSocket), with the two getters' values as arguments
getResumeState(sessionReused, sessionIDResumed) ==
  IF sessionReused
    THEN (IF sessionIDResumed
            THEN SSLResumeEnum.RESUME_SESSION_ID
            ELSE SSLResumeEnum.RESUME_TICKET)
    ELSE SSLResumeEnum.HANDSHAKE

\* a handshake completes on socket c and sets its two flags
HandshakeDone(c, reused, idResumed) ==
  /\ sock[c].state = "handshaking"
  /\ sock' = [sock EXCEPT ![c] =
                [state |-> "established", reused |-> reused, idResumed |-> idResumed]]
  /\ UNCHANGED <<logged, idxVars, dataVars, excVars, certVars>>

\* a caller classifies the established socket c
CallGetResumeState(c) ==
  /\ sock[c].state = "established"
  /\ logged[c] = <<>>
  /\ logged' = [logged EXCEPT ![c] =
                  <<getResumeState(sock[c].reused, sock[c].idResumed) % 256>>]
  /\ UNCHANGED <<sock, idxVars, dataVars, excVars, certVars>>

\* ------------------------------------------------------------ SSLException
Exceptions == 1..NumExceptions

\* enum class SSLErrorEnum
SSLErrorEnum == {"NO_ERROR", "TIMEOUT", "DROPPED"}
\* std::chrono::milliseconds values and uint64_t byte counts used as arguments
Latencies == {0, 500, 1000}
ByteCounts == {0, 1024}

\* an object not yet constructed
NoException == [made |-> FALSE, error_ |-> "NO_ERROR", latency_ |-> 0, bytesRead_ |-> 0,
                args |-> <<>>]

\* SSLException(error, latency, bytesRead): the fields take the arguments
\* (args keeps the arguments, for reference)
SSLException(error, latency, bytesRead) ==
  [made |-> TRUE, error_ |-> error, latency_ |-> latency, bytesRead_ |-> bytesRead,
   args |-> <<error, latency, bytesRead>>]

Construct(e, error, latency, bytesRead) ==
  /\ ~exc[e].made
  /\ exc' = [exc EXCEPT ![e] = SSLException(error, latency, bytesRead)]
  /\ UNCHANGED <<got, idxVars, dataVars, resVars, certVars>>

\* getError() const { return error_; }
getError(x) == x.error_

\* getLatency returning the byte count
getLatency_bytes(x) == x.bytesRead_

\* getLatency() const { return latency_; }
getLatency(x) == x.latency_

\* getBytesRead() const { return bytesRead_; }
getBytesRead(x) == x.bytesRead_

CallGetError(e) ==
  /\ exc[e].made
  /\ got' = [got EXCEPT ![e].error = <<getError(exc[e])>>]
  /\ UNCHANGED <<exc, idxVars, dataVars, resVars, certVars>>

CallGetLatency(e) ==
  /\ exc[e].made
  /\ got' = [got EXCEPT ![e].latency = <<getLatency(exc[e])>>]
  /\ UNCHANGED <<exc, idxVars, dataVars, resVars, certVars>>

CallGetBytesRead(e) ==
  /\ exc[e].made
  /\ got' = [got EXCEPT ![e].bytesRead = <<getBytesRead(exc[e])>>]
  /\ UNCHANGED <<exc, idxVars, dataVars, resVars, certVars>>

\* --------------------------------------------------- certificate extractors
\* attributes of a subject name: a Common Name with a text value, one whose
\* value does not decode as text, and another attribute
Attrs ==
  {[type |-> "CN", value |-> "example.com", text |-> TRUE],
   [type |-> "CN", value |-> "other.org", text |-> TRUE],
   [type |-> "CN", value |-> "", text |-> FALSE],
   [type |-> "O", value |-> "Example", text |-> TRUE]}

\* entries of a Subject Alternative Name extension: general names, one malformed
GeneralNames ==
  {[type |-> "DNS", value |-> "a.com", ok |-> TRUE],
   [type |-> "DNS", value |-> "b.com", ok |-> TRUE],
   [type |-> "IP", value |-> "10.0.0.1", ok |-> TRUE],
   [type |-> "DNS", value |-> "", ok |-> FALSE]}

SeqsUpTo(S, n) == UNION {[1..k -> S] : k \in 0..n}

\* a certificate: its subject (absent, or a sequence of attributes) and its
\* SAN extension (absent, undecodable as a whole, or a list of entries)
Certificates ==
  [subject : {[present |-> FALSE, attrs |-> <<>>]} \cup
             {[present |-> TRUE, attrs |-> a] : a \in SeqsUpTo(Attrs, MaxAttrs)},
   san : {[kind |-> "none", names |-> <<>>], [kind |-> "undecodable", names |-> <<>>]} \cup
         {[kind |-> "list", names |-> n] : n \in SeqsUpTo(GeneralNames, MaxNames)}]

IsCommonName(a) == a.type = "CN"

\* getCommonName raising an error for a certificate without subject
getCommonName_strict(c) ==
  IF ~c.subject.present
    THEN [present |-> FALSE, val |-> "", raised |-> TRUE]
    ELSE LET cns == SelectSeq(c.subject.attrs, IsCommonName) IN
         IF cns # <<>> /\ cns[1].text
           THEN [present |-> TRUE, val |-> cns[1].value, raised |-> FALSE]
           ELSE [present |-> FALSE, val |-> "", raised |-> FALSE]

\* getCommonName(cert): the value of the subject's Common Name attribute when
\* there is one that decodes as text, absent otherwise
getCommonName(c) ==
  IF ~c.subject.present
    THEN [present |-> FALSE, val |-> "", raised |-> FALSE]
    ELSE LET cns == SelectSeq(c.subject.attrs, IsCommonName) IN
         IF cns # <<>> /\ cns[1].text
           THEN [present |-> TRUE, val |-> cns[1].value, raised |-> FALSE]
           ELSE [present |-> FALSE, val |-> "", raised |-> FALSE]

WellFormed(g) == g.ok

\* the textual form of a general name
NameText(g) == g.type \o ":" \o g.value

RECURSIVE NameTexts(_)
NameTexts(names) ==
  IF names = <<>> THEN <<>>
  ELSE <<NameText(Head(names))>> \o NameTexts(Tail(names))

\* getSubjectAltName prepending each name and returning an empty list for a
\* certificate without the extension
getSubjectAltName_reversed(c) ==
  IF c.san.kind = "list"
    THEN LET texts == NameTexts(SelectSeq(c.san.names, WellFormed)) IN
         [present |-> TRUE,
          val |-> [i \in 1..Len(texts) |-> texts[Len(texts) + 1 - i]]]
    ELSE [present |-> (c.san.kind = "none"), val |-> <<>>]

\* getSubjectAltName(cert): absent without the extension or when it cannot be
\* decoded, else the textual forms of its entries in order, malformed ones
\* skipped
getSubjectAltName(c) ==
  IF c.san.kind = "list"
    THEN [present |-> TRUE, val |-> NameTexts(SelectSeq(c.san.names, WellFormed))]
    ELSE [present |-> FALSE, val |-> <<>>]

CallGetCommonName ==
  /\ cn = <<>>
  /\ cn' = <<getCommonName(cert)>>
  /\ UNCHANGED <<cert, san, idxVars, dataVars, resVars, excVars>>

CallGetSubjectAltName ==
  /\ san = <<>>
  /\ san' = <<getSubjectAltName(cert)>>
  /\ UNCHANGED <<cert, cn, idxVars, dataVars, resVars, excVars>>

\* ------------------------------------------------------------ specification
Init ==
  /\ sIndexLock_ = NoThread
  /\ store = [s \in Storages |-> -1]
  /\ reg = [k \in Kinds |-> <<>>]
  /\ th = [t \in Threads |-> Idle]
  /\ done = [s \in Storages |-> {}]
  /\ facCalls = [s \in Storages |-> 0]
  /\ facFails = [s \in Storages |-> 0]
  /\ conc = [s \in Storages |-> 0]
  /\ ncalls = 0
  /\ sess = [a \in Sessions |-> [state |-> "unused", ex |-> NoExData, from |-> 0]]
  /\ heap = [p \in Ptrs |-> [alloc |-> FALSE, str |-> "", dels |-> 0, by |-> ""]]
  /\ dupRet = {}
  /\ sock = [c \in Sockets |->
              [state |-> "handshaking", reused |-> FALSE, idResumed |-> FALSE]]
  /\ logged = [c \in Sockets |-> <<>>]
  /\ exc = [e \in Exceptions |-> NoException]
  /\ got = [e \in Exceptions |-> [error |-> <<>>, latency |-> <<>>, bytesRead |-> <<>>]]
  /\ cert = [subject |-> [present |-> FALSE, attrs |-> <<>>],
             san |-> [kind |-> "none", names |-> <<>>]]
  /\ cn = <<>>
  /\ san = <<>>

\* index acquisition by any number of threads
Next ==
  \E t \in Threads :
    \/ \E s \in Storages : getSSLCtxExIndex(t, s)
    \/ \E s \in Storages : getRSAExIndex(t, s)
    \/ \E s \in Storages : getSSLSessionExStrIndex(t, s)
    \/ LockGuard(t)
    \/ CheckIndex(t)
    \/ NewIndex(t)
    \/ StoreIndex(t)
    \/ Unlock(t)

Spec == Init /\ [][Next]_vars

\* index acquisition under fair scheduling: a thread inside a call is not
\* stopped for ever, and a thread waiting for the mutex gets it if it is
\* free again and again; callers need not call
Fairness ==
  \A t \in Threads :
    /\ SF_vars(LockGuard(t))
    /\ WF_vars(CheckIndex(t))
    /\ WF_vars(NewIndex(t))
    /\ WF_vars(StoreIndex(t))
    /\ WF_vars(Unlock(t))

\* the mutex is one for all storages: the threads contend for it whatever
\* they pass as pindex, so one storage location is enough here
FairStorages == {1}

NextFair ==
  \E t \in Threads :
    \/ \E s \in FairStorages : getSSLCtxExIndex(t, s)
    \/ \E s \in FairStorages : getRSAExIndex(t, s)
    \/ \E s \in FairStorages : getSSLSessionExStrIndex(t, s)
    \/ LockGuard(t)
    \/ CheckIndex(t)
    \/ NewIndex(t)
    \/ StoreIndex(t)
    \/ Unlock(t)

SpecFair == Init /\ [][NextFair]_vars /\ Fairness

\* the session string slot: one thread registers the index, then sessions
\* are created, tagged, copied and destroyed
DataThreads == {1}
DataStorages == {1}

NextData ==
  \/ \E t \in DataThreads :
       \/ \E s \in DataStorages : getSSLSessionExStrIndex(t, s)
       \/ LockGuard(t)
       \/ CheckIndex(t)
       \/ NewIndex(t)
       \/ StoreIndex(t)
       \/ Unlock(t)
  \/ \E a \in Sessions :
       \/ NewSession(a)
       \/ \E s \in DataStorages, c \in Contents : AttachString(a, s, c)
       \/ \E b \in Sessions : CopySession(a, b)
       \/ DestroySession(a)

SpecData == Init /\ [][NextData]_vars

\* the classifier applied to sockets whose handshakes completed
NextResume ==
  \E c \in Sockets :
    \/ \E reused \in BOOLEAN, idResumed \in BOOLEAN : HandshakeDone(c, reused, idResumed)
    \/ CallGetResumeState(c)

SpecResume == Init /\ [][NextResume]_vars

\* handshake errors constructed and read through their accessors
NextErr ==
  \E e \in Exceptions :
    \/ \E error \in SSLErrorEnum, latency \in Latencies, bytesRead \in ByteCounts :
         Construct(e, error, latency, bytesRead)
    \/ CallGetError(e)
    \/ CallGetLatency(e)
    \/ CallGetBytesRead(e)

SpecErr == Init /\ [][NextErr]_vars

\* the extractors applied to a certificate drawn from Certificates
InitCert ==
  /\ sIndexLock_ = NoThread
  /\ store = [s \in Storages |-> -1]
  /\ reg = [k \in Kinds |-> <<>>]
  /\ th = [t \in Threads |-> Idle]
  /\ done = [s \in Storages |-> {}]
  /\ facCalls = [s \in Storages |-> 0]
  /\ facFails = [s \in Storages |-> 0]
  /\ conc = [s \in Storages |-> 0]
  /\ ncalls = 0
  /\ sess = [a \in Sessions |-> [state |-> "unused", ex |-> NoExData, from |-> 0]]
  /\ heap = [p \in Ptrs |-> [alloc |-> FALSE, str |-> "", dels |-> 0, by |-> ""]]
  /\ dupRet = {}
  /\ sock = [c \in Sockets |->
              [state |-> "handshaking", reused |-> FALSE, idResumed |-> FALSE]]
  /\ logged = [c \in Sockets |-> <<>>]
  /\ exc = [e \in Exceptions |-> NoException]
  /\ got = [e \in Exceptions |-> [error |-> <<>>, latency |-> <<>>, bytesRead |-> <<>>]]
  /\ cert \in Certificates
  /\ cn = <<>>
  /\ san = <<>>

NextCert == CallGetCommonName \/ CallGetSubjectAltName

SpecCert == InitCert /\ [][NextCert]_vars

\* ------------------------------------------------------------------ claims
Allocated(s) == facCalls[s] - facFails[s]

\* C1: when the calls made on a storage location (by any number of
\* concurrent threads) have all returned and the facility never failed for
\* it, the new-index function was invoked exactly once for it and every call
\* saw the same non-negative index in it on return.
C1_ExactlyOnceSameIndex ==
  \A s \in Storages :
    (done[s] # {} /\ InsideCall(s) = {} /\ facFails[s] = 0) =>
      /\ facCalls[s] = 1
      /\ store[s] >= 0
      /\ \A d \in done[s] : d.val = store[s]

\* every thread was inside a call on s at once, all have returned
C1_Witness ==
  \E s \in Storages :
    /\ conc[s] = NumThreads
    /\ InsideCall(s) = {}
    /\ done[s] # {}
    /\ facFails[s] = 0
    /\ facCalls[s] = 1
    /\ store[s] >= 0

\* C2: once a storage location holds a value >= 0, no step of any call
\* changes it or invokes the facility for it.
C2_WriteOnce ==
  [][\A s \in Storages :
       store[s] >= 0 => (store'[s] = store[s] /\ facCalls'[s] = facCalls[s])]_vars

\* a call on an allocated storage has returned without asking the facility
C2_Witness ==
  \E s \in Storages : \E d \in done[s] :
    d.r = <<>> /\ d.val >= 0 /\ store[s] = d.val /\ facCalls[s] = 1

\* C3 as stated: each kind's class holds at most one allocated index.
C3_OncePerKind == \A k \in Kinds : Len(reg[k]) <= 1

\* C3 amended: for each storage location the facility allocates an index at
\* most once, whatever functions and threads are called on it.
C3_OncePerStorage == \A s \in Storages : Allocated(s) <= 1

\* two storage locations were allocated an index of the same kind
C3_Witness ==
  \E k \in Kinds : \E s1, s2 \in Storages :
    /\ s1 # s2
    /\ Len(reg[k]) = 2
    /\ store[s1] = 0
    /\ store[s2] = 1

\* C4 as stated: a call in which the facility returned a negative value does
\* not end in an ordinary return.
C4_FailurePropagated ==
  \A s \in Storages : \A d \in done[s] :
    (d.r # <<>> /\ d.r[1] < 0) => d.how # "return"

Live(a) == sess[a].state = "live"

CopyStep(a, b) ==
  sess[b].state = "unused" /\ sess'[b].state = "live" /\ sess'[b].from = a

\* C5: a copy's slot holds a string allocated by the copy, distinct from the
\* source's and equal to it in contents, where the source's slot is non-null,
\* and null where it is null; nothing else is allocated.
C5_DupDeepCopy ==
  [][\A a, b \in Sessions : CopyStep(a, b) =>
       /\ \A i \in SlotIdx :
            IF sess[a].ex[i] # NULL
              THEN /\ sess'[b].ex[i] # NULL
                   /\ sess'[b].ex[i] # sess[a].ex[i]
                   /\ ~heap[sess'[b].ex[i]].alloc
                   /\ heap'[sess'[b].ex[i]].alloc
                   /\ heap'[sess'[b].ex[i]].dels = 0
                   /\ heap'[sess'[b].ex[i]].str = heap'[sess[a].ex[i]].str
              ELSE sess'[b].ex[i] = NULL
       /\ {p \in Ptrs : heap'[p].alloc /\ ~heap[p].alloc}
            = {sess'[b].ex[i] : i \in SlotIdx} \ {NULL}]_vars

\* a copy holding a string made by the duplicate callback beside its source
C5_Witness ==
  \E a, b \in Sessions : \E i \in SlotIdx :
    /\ Live(a) /\ Live(b) /\ sess[b].from = a
    /\ sess[a].ex[i] # NULL /\ sess[b].ex[i] # NULL
    /\ heap[sess[b].ex[i]].by = "dup"
    /\ heap[sess[b].ex[i]].str = heap[sess[a].ex[i]].str

\* C6: no two slots of live sessions hold the same string instance, and the
\* string a live session holds has not been released.
C6_NoAlias ==
  \A a, b \in Sessions : \A i, j \in SlotIdx :
    (Live(a) /\ Live(b) /\ <<a, i>> # <<b, j>> /\ sess[a].ex[i] # NULL) =>
      /\ sess[a].ex[i] # sess[b].ex[j]
      /\ heap[sess[a].ex[i]].alloc
      /\ heap[sess[a].ex[i]].dels = 0

\* a copy outlives its destroyed source and still holds its own string
C6_Witness ==
  \E a, b \in Sessions : \E i \in SlotIdx :
    /\ sess[a].state = "freed" /\ Live(b) /\ sess[b].from = a
    /\ sess[a].ex[i] # NULL /\ sess[b].ex[i] # NULL
    /\ heap[sess[a].ex[i]].dels = 1
    /\ heap[sess[b].ex[i]].dels = 0

Held(a) == {sess[a].ex[i] : i \in SlotIdx} \ {NULL}

C7_Inv ==
  /\ \A p \in Ptrs : heap[p].alloc =>
       /\ heap[p].dels <= 1
       /\ heap[p].dels = 0 <=> \E a \in Sessions : Live(a) /\ p \in Held(a)
  /\ \A a \in Sessions : sess[a].state = "freed" =>
       \A p \in Held(a) : heap[p].dels = 1

C7_Step ==
  \A a \in Sessions : (Live(a) /\ sess'[a].state = "freed") =>
    \A p \in Ptrs :
      IF p \in Held(a)
        THEN heap'[p] = [heap[p] EXCEPT !.dels = @ + 1]
        ELSE heap'[p] = heap[p]

\* C7: destroying a session releases exactly the strings its slots hold and
\* nothing where a slot is null; every allocated string is unreleased while a
\* live session holds it and released exactly once when its session is
\* destroyed.
C7_ReleasedExactlyOnce == []C7_Inv /\ [][C7_Step]_vars

\* a source and its copy are destroyed: the attached string and the
\* duplicated one are each released once
C7_Witness ==
  \E a, b \in Sessions : \E i \in SlotIdx :
    /\ sess[a].state = "freed" /\ sess[b].state = "freed" /\ sess[b].from = a
    /\ sess[a].ex[i] # NULL /\ sess[b].ex[i] # NULL
    /\ heap[sess[a].ex[i]].by = "attach" /\ heap[sess[a].ex[i]].dels = 1
    /\ heap[sess[b].ex[i]].by = "dup" /\ heap[sess[b].ex[i]].dels = 1

\* C8: a copy leaves the source session, every other existing session and
\* every string allocated before it as they were.
C8_DupFrame ==
  [][\A a, b \in Sessions : CopyStep(a, b) =>
       /\ \A c \in Sessions \ {b} : sess'[c] = sess[c]
       /\ \A p \in Ptrs : heap[p].alloc => heap'[p] = heap[p]]_vars

\* a source with a string, after being copied
C8_Witness ==
  \E a, b \in Sessions : \E i \in SlotIdx :
    /\ Live(a) /\ sess[b].from = a /\ sess[b].state # "unused"
    /\ sess[a].ex[i] # NULL
    /\ heap[sess[a].ex[i]].by = "attach"
    /\ heap[sess[a].ex[i]].str \in Contents
    /\ sess[b].ex[i] # sess[a].ex[i]

C9_Reference(reused, idResumed) ==
  CASE ~reused -> SSLResumeEnum.HANDSHAKE
    [] reused /\ idResumed -> SSLResumeEnum.RESUME_SESSION_ID
    [] reused /\ ~idResumed -> SSLResumeEnum.RESUME_TICKET

\* C9: for every socket classified, the result is HANDSHAKE when the session
\* was not reused, RESUME_SESSION_ID when reused by session id, RESUME_TICKET
\* when reused otherwise, and never NA.
C9_ResumeMapping ==
  \A c \in Sockets : logged[c] # <<>> =>
    /\ logged[c][1] = C9_Reference(sock[c].reused, sock[c].idResumed)
    /\ logged[c][1] # SSLResumeEnum.NA

\* a ticket resumption and a full handshake with the session-id flag set
C9_Witness ==
  \E c, d \in Sockets :
    /\ logged[c] # <<>> /\ sock[c].reused /\ ~sock[c].idResumed
    /\ logged[d] # <<>> /\ ~sock[d].reused /\ sock[d].idResumed

\* C10: the categories are numbered 0, 1, 2 (NA), 3, and the classifier's
\* result as a number is 0, 1 or 3 accordingly.
C10_NumericEncoding ==
  /\ SSLResumeEnum.HANDSHAKE = 0
  /\ SSLResumeEnum.RESUME_SESSION_ID = 1
  /\ SSLResumeEnum.NA = 2
  /\ SSLResumeEnum.RESUME_TICKET = 3
  /\ \A c \in Sockets : logged[c] # <<>> =>
       logged[c][1] = IF ~sock[c].reused THEN 0
                      ELSE IF sock[c].idResumed THEN 1 ELSE 3

\* the three numbers 0, 1 and 3 have all been returned
C10_Witness ==
  \E c, d, e \in Sockets :
    logged[c] = <<0>> /\ logged[d] = <<1>> /\ logged[e] = <<3>>

Holding(t) == th[t].pc \in {"check", "new", "store", "unlock"}

C14_Inv ==
  /\ \A t \in Threads : Holding(t) => sIndexLock_ = t
  /\ Cardinality({t \in Threads : Holding(t)}) <= 1

C14_Step ==
  \A s \in Storages : store'[s] # store[s] =>
    \E t \in Threads :
      sIndexLock_ = t /\ th[t].pc = "store" /\ th[t].pindex = s

\* C14: the thread past the lock of any of the three functions is the holder
\* of sIndexLock_, so at most one thread is between the check and the store,
\* whatever the kinds and storages; every write to a storage location is
\* made by the holder of the lock.
C14_SingleLock == []C14_Inv /\ [][C14_Step]_vars

\* one thread is about to store while another, called for another kind and
\* another storage, waits for the lock
C14_Witness ==
  \E t, u \in Threads :
    /\ th[t].pc = "store" /\ sIndexLock_ = t
    /\ th[u].pc = "lock"
    /\ th[u].kind # th[t].kind
    /\ th[u].pindex # th[t].pindex

Failed(d) == d.r # <<>> /\ d.r[1] < 0

C16_Inv ==
  /\ \A s \in Storages : \A d \in done[s] : Failed(d) => d.val < 0
  /\ \A s \in Storages : facCalls[s] - facFails[s] \in {0, 1}
  /\ \A s \in Storages :
       (InsideCall(s) = {} /\ facFails[s] = facCalls[s]) => store[s] < 0

C16_Step ==
  \A t \in Threads :
    (th[t].pc = "check" /\ th'[t].pc # "check" /\ store[th[t].pindex] < 0)
      => th'[t].pc = "new"

\* C16: a call in which the facility failed returns with the storage still
\* negative, as it is when nothing was tried; a call that finds the storage
\* negative asks the facility, so the facility can be invoked several times
\* for one storage, and at most one of the invocations succeeds.
C16_FailedLeavesUnallocated == []C16_Inv /\ [][C16_Step]_vars

\* the facility failed for a storage, was asked again for it and succeeded
C16_Witness ==
  \E s \in Storages :
    /\ facFails[s] = 1 /\ facCalls[s] = 2 /\ store[s] >= 0
    /\ \E d \in done[s] : Failed(d) /\ d.val < 0

\* C17: every index of the session class carries exDataStdStringDup and
\* exDataStdStringFree, every index of the context and key classes carries
\* no callback, so that copying or releasing a slot of a context or key
\* object leaves the strings as they are.
C17_OnlySessionCallbacks ==
  /\ \A i \in 1..Len(reg["SSL_SESSION"]) :
       reg["SSL_SESSION"][i] = [dup |-> "exDataStdStringDup", free |-> "exDataStdStringFree"]
  /\ \A k \in {"SSL_CTX", "RSA"} : \A i \in 1..Len(reg[k]) :
       /\ reg[k][i] = [dup |-> "nullptr", free |-> "nullptr"]
       /\ \A v \in Ptrs \cup {NULL} :
            /\ DupSlot(reg[k][i], v, heap) = [ptr |-> v, heap |-> heap, ret |-> 1]
            /\ FreeSlot(reg[k][i], v, heap) = heap

\* the session class and a callback-free class each hold a registered index
C17_Witness ==
  /\ Len(reg["SSL_SESSION"]) = 1
  /\ \E k \in {"SSL_CTX", "RSA"} : Len(reg[k]) = 1
  /\ \A s \in Storages : store[s] = 0

\* C18: a step that changes a storage location is the store of a call made
\* on that location, and it changes no other location.
C18_WritesOnlyOwnStorage ==
  [][\A s \in Storages : store'[s] # store[s] =>
       /\ \E t \in Threads : th[t].pc = "store" /\ th[t].pindex = s /\ th'[t].pc = "unlock"
       /\ \A s2 \in Storages \ {s} : store'[s2] = store[s2]]_vars

\* one storage holds the index of one kind while a storage of another kind,
\* whose call has returned after a failure, is still unallocated
C18_Witness ==
  \E s1, s2 \in Storages :
    /\ s1 # s2
    /\ store[s1] >= 0 /\ facCalls[s1] = 1
    /\ store[s2] < 0 /\ facFails[s2] = 1 /\ InsideCall(s2) = {}

C15_NoNestedLock ==
  /\ sIndexLock_' # sIndexLock_ /\ sIndexLock_' # NoThread => sIndexLock_ = NoThread
  /\ \A t \in Threads : sIndexLock_ = t /\ th'[t] # th[t] => th'[t].pc # "check"

\* C15: the mutex is only taken when it is free and never by its holder, and
\* under fair scheduling every thread inside a call returns and the mutex,
\* once held, is released.
C15_AlwaysCompletes ==
  /\ [][C15_NoNestedLock]_vars
  /\ \A t \in Threads : (th[t].pc # "idle") ~> (th[t].pc = "idle")
  /\ (sIndexLock_ # NoThread) ~> (sIndexLock_ = NoThread)

\* every thread has been inside a call on one storage at once and all of
\* them have returned, leaving the mutex free
C15_Witness ==
  \E s \in Storages :
    /\ conc[s] = NumThreads
    /\ \A t \in Threads : th[t].pc = "idle"
    /\ sIndexLock_ = NoThread
    /\ ncalls = MaxCalls

\* C19: exDataStdStringDup has returned 1 every time it was called, for a
\* null source value as for a non-null one, and every string it allocated
\* is in the slot of a session that came into being: no copy was aborted.
C19_DupReportsSuccess ==
  /\ \A x \in dupRet : x.ret = 1
  /\ \A p \in Ptrs : (heap[p].alloc /\ heap[p].by = "dup") =>
       \E b \in Sessions : sess[b].state # "unused" /\ sess[b].from # 0 /\ p \in Held(b)

\* a session whose registered slot is null has been copied: the callback
\* was called with a null source value, returned 1, and the copy exists
C19_Witness ==
  /\ dupRet = {[null |-> TRUE, ret |-> 1]}
  /\ \E b \in Sessions : Live(b) /\ sess[b].from # 0 /\ Held(b) = {}

\* C11: an exception constructed with a category, a latency and a byte count
\* holds exactly these in its fields, whatever accessors have been called,
\* and each accessor has returned the value it was constructed with.
C11_AccessorsReportArguments ==
  \A e \in Exceptions : exc[e].made =>
    /\ <<exc[e].error_, exc[e].latency_, exc[e].bytesRead_>> = exc[e].args
    /\ got[e].error \in {<<>>, <<exc[e].args[1]>>}
    /\ got[e].latency \in {<<>>, <<exc[e].args[2]>>}
    /\ got[e].bytesRead \in {<<>>, <<exc[e].args[3]>>}

\* {TIMEOUT, 500 ms, 1024 bytes} constructed and read back through all three
C11_Witness ==
  \E e \in Exceptions :
    /\ exc[e].args = <<"TIMEOUT", 500, 1024>>
    /\ got[e] = [error |-> <<"TIMEOUT">>, latency |-> <<500>>, bytesRead |-> <<1024>>]

C12_Inv ==
  san # <<>> =>
    /\ cert.san.kind = "none" => san[1] = [present |-> FALSE, val |-> <<>>]
    /\ cert.san.kind = "list" =>
         /\ san[1].present
         /\ san[1].val = NameTexts(SelectSeq(cert.san.names, WellFormed))
         /\ (\A i \in 1..Len(cert.san.names) : cert.san.names[i].ok) =>
              /\ Len(san[1].val) = Len(cert.san.names)
              /\ \A i \in 1..Len(cert.san.names) :
                   san[1].val[i] = cert.san.names[i].type \o ":" \o cert.san.names[i].value
    /\ san[1] = [present |-> TRUE, val |-> <<>>] => cert.san.kind = "list"

C13_CommonNameOrAbsent ==
  cn # <<>> =>
    /\ ~cn[1].raised
    /\ (~cert.subject.present \/ SelectSeq(cert.subject.attrs, IsCommonName) = <<>>)
         => ~cn[1].present
    /\ (cert.subject.present /\ SelectSeq(cert.subject.attrs, IsCommonName) # <<>>
          /\ SelectSeq(cert.subject.attrs, IsCommonName)[1].text)
         => /\ cn[1].present
            /\ cn[1].val = SelectSeq(cert.subject.attrs, IsCommonName)[1].value

\* the subject O=Example, CN=example.com gave example.com
C13_Witness ==
  /\ cert.subject.present
  /\ Len(cert.subject.attrs) = 2
  /\ cert.subject.attrs[2].value = "example.com"
  /\ cert.subject.attrs[1].type = "O"
  /\ cn = <<[present |-> TRUE, val |-> "example.com", raised |-> FALSE]>>

====
